---- MODULE Spec2Model ----
(***************************************************************************)
(* Model of analyst-tools.py: the ledger (dataset.csv) and the read-only   *)
(* operations get_data, compare_performance, list_all_entities,            *)
(* list_customer_projects and list_project_customers.  Every operation     *)
(* reloads the ledger, so the state is the ledger on disk, its schema and  *)
(* the last call with its outcome.                                         *)
(*                                                                         *)
(* Strings are sequences of one-character strings, so that str.lower(),    *)
(* string comparison and the fuzzy scorer are computed, not assumed.       *)
(* An Optional[...] argument is a sequence of length 0 (None) or 1.        *)
(***************************************************************************)
EXTENDS Integers, Sequences, FiniteSets, TLC

VARIABLES ledger, hasOpex, call, ret

vars == <<ledger, hasOpex, call, ret>>

-----------------------------------------------------------------------------
(* Bounds of the model *)

MaxRows == 2

MaxTopN == 2

-----------------------------------------------------------------------------
(* Characters and strings *)

\* The characters used, in code point order (Python compares str by code point).
Alphabet ==
  <<"-", "A", "B", "E", "L", "O", "R", "V", "_",
    "a", "b", "c", "d", "e", "f", "g", "i", "j", "l", "m", "n", "o", "p", "q",
    "r", "s", "t", "u", "v", "x">>

Ord(c) == CHOOSE i \in 1..Len(Alphabet) : Alphabet[i] = c

\* str.lower() on one character
LowerChar(c) ==
  CASE c = "A" -> "a" [] c = "B" -> "b" [] c = "E" -> "e" [] c = "L" -> "l"
    [] c = "O" -> "o" [] c = "R" -> "r" [] c = "V" -> "v" [] OTHER -> c

\* str.lower()
Lower(s) == [i \in 1..Len(s) |-> LowerChar(s[i])]

\* s1 < s2 for Python str (lexicographic by code point)
RECURSIVE StrLess(_, _)
StrLess(s1, s2) ==
  IF s2 = <<>> THEN FALSE
  ELSE IF s1 = <<>> THEN TRUE
  ELSE IF s1[1] = s2[1] THEN StrLess(Tail(s1), Tail(s2))
  ELSE Ord(s1[1]) < Ord(s2[1])

\* Optional values and Python truthiness of an Optional[str]
None == <<>>

Some(x) == <<x>>

Truthy(o) == o # None /\ o[1] # <<>>

-----------------------------------------------------------------------------
(* thefuzz: process.extractOne(query, choices) with its defaults, the      *)
(* processor utils.full_process and the scorer fuzz.WRatio.                *)

IsAlnum(c) == c \notin {"-", "_", " "}

RECURSIVE Strip(_)
Strip(s) ==
  IF s = <<>> THEN s
  ELSE IF s[1] = " " THEN Strip(Tail(s))
  ELSE IF s[Len(s)] = " " THEN Strip(SubSeq(s, 1, Len(s) - 1))
  ELSE s

\* utils.full_process: non-alphanumerics become spaces, lower case, strip
full_process(s) ==
  Strip([i \in 1..Len(s) |-> IF IsAlnum(s[i]) THEN LowerChar(s[i]) ELSE " "])

Max(a, b) == IF a >= b THEN a ELSE b

\* length of the longest common subsequence
RECURSIVE LCS(_, _)
LCS(a, b) ==
  IF a = <<>> \/ b = <<>> THEN 0
  ELSE IF a[1] = b[1] THEN 1 + LCS(Tail(a), Tail(b))
  ELSE Max(LCS(Tail(a), b), LCS(a, Tail(b)))

\* n/d rounded to the nearest integer (d > 0, n >= 0)
Round(n, d) == (2 * n + d) \div (2 * d)

\* fuzz.ratio: 100 * 2 * matches / (len(a) + len(b))
ratio(a, b) ==
  IF Len(a) + Len(b) = 0 THEN 100
  ELSE Round(200 * LCS(a, b), Len(a) + Len(b))

\* fuzz.partial_ratio: the best ratio of the shorter string against a window
\* of the longer one
partial_ratio(a, b) ==
  LET s == IF Len(a) <= Len(b) THEN a ELSE b
      l == IF Len(a) <= Len(b) THEN b ELSE a
      windows == {SubSeq(l, i, i + Len(s) - 1) : i \in 1..(Len(l) - Len(s) + 1)}
                 \cup {SubSeq(l, 1, k) : k \in 1..Len(s)}
                 \cup {SubSeq(l, Len(l) - k + 1, Len(l)) : k \in 1..Len(s)}
      scores == {ratio(s, w) : w \in windows}
  IN  CHOOSE m \in scores : \A x \in scores : x <= m

\* fuzz.WRatio on two raw strings.  The names and queries of the model
\* process to a single token, for which token_sort_ratio and token_set_ratio
\* equal ratio, and their partial forms equal partial_ratio; scores are kept
\* times 100 until the final rounding.
WRatio(s1, s2) ==
  LET p1 == full_process(s1)
      p2 == full_process(s2)
      lo == IF Len(p1) <= Len(p2) THEN Len(p1) ELSE Len(p2)
      hi == IF Len(p1) <= Len(p2) THEN Len(p2) ELSE Len(p1)
      base == ratio(p1, p2)
      try_partial == ~(2 * hi < 3 * lo)
      partial_scale == IF hi > 8 * lo THEN 60 ELSE 90
      partial == partial_ratio(p1, p2)
  IN  IF p1 = <<>> \/ p2 = <<>> THEN 0
      ELSE IF try_partial
        THEN Round(Max(100 * base,
                       Max(partial * partial_scale,
                           (partial * 95 * partial_scale) \div 100)), 100)
        ELSE Round(Max(100 * base, 95 * base), 100)

-----------------------------------------------------------------------------
(* thefuzz process.extractOne and the acceptance test of its result *)

\* The strings the scorer is applied to in the model
ScoredQueries ==
  {<<"a", "b">>, <<"A", "B">>, <<"a", "x", "b">>, <<"a", "b", "x">>, <<"p">>, <<"q">>}

ScoredChoices ==
  {<<"a", "b">>, <<"A", "B">>, <<"O", "V", "E", "R", "A", "L", "L">>, <<"p">>, <<"q">>}

\* The scorer tabulated over those strings
ScoreTable == [query \in ScoredQueries |-> [choice \in ScoredChoices |-> WRatio(query, choice)]]

\* the score extractOne gives a choice
Score(query, choice) == ScoreTable[query][choice]

\* process.extractOne(query, choices): None for no choices, else the first
\* choice with the highest score, with that score
extractOne(query, choices) ==
  IF choices = <<>> THEN None
  ELSE LET best == CHOOSE i \in 1..Len(choices) :
                     /\ \A j \in 1..Len(choices) :
                          Score(query, choices[j]) <= Score(query, choices[i])
                     /\ \A j \in 1..(i - 1) :
                          Score(query, choices[j]) < Score(query, choices[i])
       IN  Some([choice |-> choices[best], score |-> Score(query, choices[best])])

\* the confidence a match must exceed
Threshold == 80

\* the acceptance test with the threshold itself accepted
AcceptedAtLeast(best_match) == best_match.score >= Threshold

\* "if best_match[1] > 80"
Accepted(best_match) == best_match.score > Threshold

-----------------------------------------------------------------------------
(* pandas helpers *)

\* df[column] as a sequence
Column(df, column) == [i \in 1..Len(df) |-> df[i][column]]

\* Series.unique(): the distinct values in order of first appearance
RECURSIVE unique(_)
unique(col) ==
  IF col = <<>> THEN <<>>
  ELSE LET init == unique(SubSeq(col, 1, Len(col) - 1))
           x == col[Len(col)]
       IN  IF \E i \in 1..Len(init) : init[i] = x THEN init ELSE Append(init, x)

\* df.loc[df[column] == value]
FilterEq(df, column, value) == SelectSeq(df, LAMBDA r : r[column] = value)

\* Series.sum()
RECURSIVE Sum(_)
Sum(col) == IF col = <<>> THEN 0 ELSE col[1] + Sum(Tail(col))

\* sorted(list of str)
RECURSIVE sorted(_)
sorted(names) ==
  IF names = <<>> THEN <<>>
  ELSE LET m == CHOOSE i \in 1..Len(names) :
                  \A j \in 1..Len(names) : ~StrLess(names[j], names[i])
       IN  <<names[m]>> \o
           sorted([i \in 1..(Len(names) - 1) |-> IF i < m THEN names[i] ELSE names[i + 1]])

\* Numbers that are the result of a division: a fraction num/den, or the
\* float inf, -inf or nan that pandas yields for a division by zero.
Frac(n, d) == [kind |-> "num", num |-> n, den |-> d]

Div(a, b) ==
  IF b # 0 THEN Frac(a, b)
  ELSE IF a > 0 THEN [kind |-> "inf", num |-> 1, den |-> 0]
  ELSE IF a < 0 THEN [kind |-> "-inf", num |-> -1, den |-> 0]
  ELSE [kind |-> "nan", num |-> 0, den |-> 0]

\* "x / total_revenue if total_revenue > 0 else 0"
GuardedPercentage(x, total_revenue) ==
  IF total_revenue > 0 THEN Div(x, total_revenue) ELSE Frac(0, 1)

\* the literal 1.0
OneFloat == Frac(1, 1)

\* dict assignment d[key] = value on an insertion-ordered dict
DictSet(d, key, value) ==
  IF \E i \in 1..Len(d) : d[i].key = key
    THEN [i \in 1..Len(d) |-> IF d[i].key = key THEN [key |-> key, value |-> value] ELSE d[i]]
    ELSE Append(d, [key |-> key, value |-> value])

DictKeys(d) == [i \in 1..Len(d) |-> d[i].key]

DictHas(d, key) == \E i \in 1..Len(d) : d[i].key = key

DictGet(d, key) == d[CHOOSE i \in 1..Len(d) : d[i].key = key].value

-----------------------------------------------------------------------------
(* String literals of the program *)

S_revenue == <<"r", "e", "v", "e", "n", "u", "e">>

S_gross_margin == <<"g", "r", "o", "s", "s", "_", "m", "a", "r", "g", "i", "n">>

S_ebitda == <<"e", "b", "i", "t", "d", "a">>

S_customer == <<"c", "u", "s", "t", "o", "m", "e", "r">>

S_project == <<"p", "r", "o", "j", "e", "c", "t">>

S_OVERALL == <<"O", "V", "E", "R", "A", "L", "L">>

-----------------------------------------------------------------------------
(* get_data *)

\* The outcome of a get_data call: the exception raised or "ok", the
\* candidate named in a "Did you mean" message and the dimension it is
\* about, the locals customer and project when the call ended, and the two
\* series returned.
GetDataRaise(status, dim, hint, customer, project) ==
  [status |-> status, dim |-> dim, hint |-> hint, customer |-> customer,
   project |-> project, values |-> <<>>, percentages |-> <<>>]

GetDataReturn(customer, project, values, percentages) ==
  [status |-> "ok", dim |-> "", hint |-> <<>>, customer |-> customer,
   project |-> project, values |-> values, percentages |-> percentages]

\* the valid metric names
valid_metrics == <<S_revenue, S_gross_margin, S_ebitda>>

\* a fall through that returns two empty series instead of raising
ReturnNothing(customer, project) == GetDataReturn(customer, project, <<>>, <<>>)

\* lines 68-69 and 86-87: raise ValueError("Unknown metric: ...")
RaiseUnknownMetric(customer, project) ==
  GetDataRaise("UnknownMetric", "", <<>>, customer, project)

\* lines 46-89: the metric computation, on the filtered frame df, with the
\* locals customer and project as the two filters left them
ComputeMetric(df, opex, metric, customer, project) ==
  IF ~Truthy(customer) /\ ~Truthy(project)
    THEN LET total_revenue == Sum(Column(df, "Revenue"))
             total_cogs == Sum(Column(df, "COGS"))
         IN  IF metric = S_gross_margin
               THEN GetDataReturn(customer, project,
                      <<total_revenue - total_cogs>>,
                      <<GuardedPercentage(total_revenue - total_cogs, total_revenue)>>)
             ELSE IF metric = S_revenue
               THEN GetDataReturn(customer, project, <<total_revenue>>, <<OneFloat>>)
             ELSE IF metric = S_ebitda
               THEN IF ~opex
                      THEN GetDataRaise("KeyError", "", <<>>, customer, project)
                      ELSE LET total_opex == Sum(Column(df, "OPEX"))
                               overall_value == total_revenue - total_cogs - total_opex
                           IN  GetDataReturn(customer, project, <<overall_value>>,
                                 <<GuardedPercentage(overall_value, total_revenue)>>)
             ELSE RaiseUnknownMetric(customer, project)
    ELSE IF metric = S_gross_margin
      THEN GetDataReturn(customer, project,
             [i \in 1..Len(df) |-> df[i].Revenue - df[i].COGS],
             [i \in 1..Len(df) |-> Div(df[i].Revenue - df[i].COGS, df[i].Revenue)])
    ELSE IF metric = S_revenue
      THEN GetDataReturn(customer, project,
             [i \in 1..Len(df) |-> df[i].Revenue],
             [i \in 1..Len(df) |-> OneFloat])
    ELSE IF metric = S_ebitda
      THEN IF ~opex
             THEN GetDataRaise("KeyError", "", <<>>, customer, project)
             ELSE GetDataReturn(customer, project,
                    [i \in 1..Len(df) |-> df[i].Revenue - df[i].COGS - df[i].OPEX],
                    [i \in 1..Len(df) |->
                       Div(df[i].Revenue - df[i].COGS - df[i].OPEX, df[i].Revenue)])
    ELSE RaiseUnknownMetric(customer, project)

\* the customer filter resolving the name but keeping every row
CustomerRowsKept(df, customer) == df

\* line 29: df.loc[df['CustomerName'] == customer]
CustomerRows(df, customer) == FilterEq(df, "CustomerName", customer)

\* line 39: df.loc[df['ProjectName'] == project]
ProjectRows(df, project) == FilterEq(df, "ProjectName", project)

\* line 44: metric = metric.lower()
MetricLower(metric) == Lower(metric)

\* lines 33-44: the project filter, then the metric computation
ProjectFilter(df, opex, metric, customer, project) ==
  IF Truthy(project)
    THEN LET project_names == unique(Column(df, "ProjectName"))
             best_match == extractOne(project[1], project_names)
         IN  IF best_match = None
               THEN GetDataRaise("TypeError", "project", <<>>, customer, project)
             ELSE IF Accepted(best_match[1])
               THEN ComputeMetric(ProjectRows(df, best_match[1].choice), opex,
                      MetricLower(metric), customer, Some(best_match[1].choice))
             ELSE GetDataRaise("NoConfidentMatch", "project", best_match[1].choice,
                    customer, project)
    ELSE ComputeMetric(df, opex, MetricLower(metric), customer, project)

\* get_data(metric, customer, project) on the frame df read from the ledger
get_data(df, opex, metric, customer, project) ==
  IF Truthy(customer)
    THEN LET customer_names == unique(Column(df, "CustomerName"))
             best_match == extractOne(customer[1], customer_names)
         IN  IF best_match = None
               THEN GetDataRaise("TypeError", "customer", <<>>, customer, project)
             ELSE IF Accepted(best_match[1])
               THEN ProjectFilter(CustomerRows(df, best_match[1].choice), opex, metric,
                      Some(best_match[1].choice), project)
             ELSE GetDataRaise("NoConfidentMatch", "customer", best_match[1].choice,
                    customer, project)
    ELSE ProjectFilter(df, opex, metric, customer, project)

-----------------------------------------------------------------------------
(* compare_performance *)

CompareRaise(status) == [status |-> status, results |-> <<>>]

CompareReturn(results) == [status |-> "ok", results |-> results]

\* lines 140-153 and 177-190: the three metrics of a block of totals, a dict
\* keyed by the canonical metric names
MetricsOf(total_revenue, total_cogs, total_opex) ==
  <<[key |-> S_revenue,
     value |-> [value |-> total_revenue, percentage |-> OneFloat]],
    [key |-> S_gross_margin,
     value |-> [value |-> total_revenue - total_cogs,
                percentage |-> GuardedPercentage(total_revenue - total_cogs,
                                                 total_revenue)]],
    [key |-> S_ebitda,
     value |-> [value |-> total_revenue - total_cogs - total_opex,
                percentage |-> GuardedPercentage(
                                 total_revenue - total_cogs - total_opex,
                                 total_revenue)]]>>

\* "df['OPEX'].sum() if 'OPEX' in df.columns else 0"
OpexTotal(df, opex) == IF opex THEN Sum(Column(df, "OPEX")) ELSE 0

\* the totals of a frame turned into its metric dict
FrameMetrics(df, opex) ==
  MetricsOf(Sum(Column(df, "Revenue")), Sum(Column(df, "COGS")), OpexTotal(df, opex))

\* "{metric: d[metric] for metric in metrics}"; the lookup raises KeyError
\* for a metric that is no key of d (see HasAll)
RECURSIVE Pick(_, _)
Pick(d, metrics) ==
  IF metrics = <<>> THEN <<>>
  ELSE DictSet(Pick(d, SubSeq(metrics, 1, Len(metrics) - 1)),
               metrics[Len(metrics)], DictGet(d, metrics[Len(metrics)]))

HasAll(d, metrics) == \A i \in 1..Len(metrics) : DictHas(d, metrics[i])

\* lines 134-159: one summary per group, in groupby's (sorted key) order
entities_summary(df, opex, entity_col, metrics) ==
  LET names == sorted(unique(Column(df, entity_col)))
  IN  [i \in 1..Len(names) |->
         LET group == FilterEq(df, entity_col, names[i])
         IN  [name |-> names[i],
              revenue |-> Sum(Column(group, "Revenue")),
              metrics |-> Pick(FrameMetrics(group, opex), metrics)]]

\* an ascending sort reversed: descending, but equal revenues in reverse order
RECURSIVE SortReversed(_)
SortReversed(summary) ==
  IF summary = <<>> THEN <<>>
  ELSE LET init == SortReversed(SubSeq(summary, 1, Len(summary) - 1))
           x == summary[Len(summary)]
           k == Cardinality({i \in 1..Len(init) : init[i].revenue > x.revenue})
       IN  SubSeq(init, 1, k) \o <<x>> \o SubSeq(init, k + 1, Len(init))

\* line 162: list.sort(key=revenue, reverse=True), a stable sort
RECURSIVE SortByRevenue(_)
SortByRevenue(summary) ==
  IF summary = <<>> THEN <<>>
  ELSE LET init == SortByRevenue(SubSeq(summary, 1, Len(summary) - 1))
           x == summary[Len(summary)]
           k == Cardinality({i \in 1..Len(init) : init[i].revenue >= x.revenue})
       IN  SubSeq(init, 1, k) \o <<x>> \o SubSeq(init, k + 1, Len(init))

\* lines 165-166: the top_n cut
Truncate(summary, top_n) ==
  IF top_n # None /\ top_n[1] > 0
    THEN SubSeq(summary, 1, IF top_n[1] < Len(summary) THEN top_n[1] ELSE Len(summary))
    ELSE summary

\* lines 169-170: results[entity['name']] = entity['metrics']
RECURSIVE ResultsOf(_)
ResultsOf(summary) ==
  IF summary = <<>> THEN <<>>
  ELSE DictSet(ResultsOf(SubSeq(summary, 1, Len(summary) - 1)),
               summary[Len(summary)].name, summary[Len(summary)].metrics)

\* lines 124-196: the work after validation
Aggregate(df, opex, entity_col, metrics, top_n) ==
  IF Len(df) > 0 /\ ~HasAll(MetricsOf(0, 0, 0), metrics)
    THEN CompareRaise("KeyError")
    ELSE LET summary == Truncate(SortByRevenue(
                          entities_summary(df, opex, entity_col, metrics)), top_n)
             results == DictSet(ResultsOf(summary), S_OVERALL, FrameMetrics(df, opex))
         IN  IF \E i \in 1..Len(results) : ~HasAll(results[i].value, metrics)
               THEN CompareRaise("KeyError")
               ELSE CompareReturn(
                      [i \in 1..Len(results) |->
                         [key |-> results[i].key,
                          value |-> Pick(results[i].value, metrics)]])

\* lines 119-122: every metric is valid, compared in lower case
MetricsValid(metrics) ==
  \A i \in 1..Len(metrics) :
    \E j \in 1..Len(valid_metrics) : Lower(metrics[i]) = valid_metrics[j]

\* compare_performance(entity_type, metrics, top_n) on the frame df
compare_performance(df, opex, entity_type, metrics, top_n) ==
  IF Lower(entity_type) \notin {S_customer, S_project}
    THEN CompareRaise("InvalidDimension")
  ELSE LET ms == IF metrics = None THEN valid_metrics ELSE metrics[1]
       IN  IF ~MetricsValid(ms) THEN CompareRaise("UnknownMetric")
           ELSE Aggregate(df, opex,
                  IF Lower(entity_type) = S_customer THEN "CustomerName" ELSE "ProjectName",
                  ms, top_n)

-----------------------------------------------------------------------------
(* The directory resources *)

\* the cross reference built from the whole frame instead of the key's rows
RECURSIVE CrossReferenceUnfiltered(_, _, _, _)
CrossReferenceUnfiltered(df, keys, key_col, other_col) ==
  IF keys = <<>> THEN <<>>
  ELSE DictSet(CrossReferenceUnfiltered(df, SubSeq(keys, 1, Len(keys) - 1), key_col, other_col),
               keys[Len(keys)], sorted(unique(Column(df, other_col))))

\* lines 217-225: for every key of keys, the sorted distinct values of
\* other_col in the rows whose key_col is that key
RECURSIVE CrossReference(_, _, _, _)
CrossReference(df, keys, key_col, other_col) ==
  IF keys = <<>> THEN <<>>
  ELSE DictSet(CrossReference(df, SubSeq(keys, 1, Len(keys) - 1), key_col, other_col),
               keys[Len(keys)],
               sorted(unique(Column(FilterEq(df, key_col, keys[Len(keys)]), other_col))))

\* list_all_entities()
list_all_entities(df) ==
  LET customers == sorted(unique(Column(df, "CustomerName")))
      projects == sorted(unique(Column(df, "ProjectName")))
  IN  [status |-> "ok",
       customers |-> customers,
       projects |-> projects,
       customer_projects |-> CrossReference(df, customers, "CustomerName", "ProjectName"),
       project_customers |-> CrossReference(df, projects, "ProjectName", "CustomerName")]

ListRaise(status, hint) == [status |-> status, hint |-> hint, names |-> <<>>]

\* list_customer_projects(name) with key_col CustomerName, and
\* list_project_customers(name) with key_col ProjectName
list_related(df, key_col, other_col, name) ==
  LET best_match == extractOne(name, unique(Column(df, key_col)))
  IN  IF best_match = None THEN ListRaise("TypeError", <<>>)
      ELSE IF Accepted(best_match[1])
        THEN [status |-> "ok", hint |-> <<>>,
              names |-> sorted(unique(Column(
                          FilterEq(df, key_col, best_match[1].choice), other_col)))]
      ELSE ListRaise("NoConfidentMatch", best_match[1].choice)

list_customer_projects(df, customer_name) ==
  list_related(df, "CustomerName", "ProjectName", customer_name)

list_project_customers(df, project_name) ==
  list_related(df, "ProjectName", "CustomerName", project_name)

-----------------------------------------------------------------------------
(* The inputs of the model *)

N_ab == <<"a", "b">>

N_AB == <<"A", "B">>

N_p == <<"p">>

N_q == <<"q">>

\* queries: a near miss of "ab" scoring exactly 80 and one scoring 90
Q_axb == <<"a", "x", "b">>

Q_abx == <<"a", "b", "x">>

S_Ebitda == <<"E", "b", "i", "t", "d", "a">>

S_profit == <<"p", "r", "o", "f", "i", "t">>

S_customeR == <<"c", "u", "s", "t", "o", "m", "e", "R">>

S_region == <<"r", "e", "g", "i", "o", "n">>

CustomerNames == {N_ab, N_AB, S_OVERALL}

ProjectNames == {N_p, N_q}

RevenueValues == {0, 2}

COGSValues == {1}

OPEXValues == {1}

\* the rows a ledger of the given schema can hold
Rows(opex) ==
  IF opex
    THEN [CustomerName : CustomerNames, ProjectName : ProjectNames,
          Revenue : RevenueValues, COGS : COGSValues, OPEX : OPEXValues]
    ELSE [CustomerName : CustomerNames, ProjectName : ProjectNames,
          Revenue : RevenueValues, COGS : COGSValues]

CustomerQueries == {N_ab, N_AB, Q_axb, Q_abx}

ProjectQueries == {N_p, N_q}

MetricArgs == {S_revenue, S_gross_margin, S_Ebitda, S_profit}

MetricLists ==
  {None, Some(<<S_revenue>>), Some(<<S_ebitda, S_gross_margin>>),
   Some(<<S_Ebitda>>), Some(<<S_profit>>)}

EntityTypes == {S_customer, S_project, S_customeR, S_region}

TopNs == {None} \cup {Some(n) : n \in 0..MaxTopN}

OptionOf(S) == {None} \cup {Some(x) : x \in S}

-----------------------------------------------------------------------------
(* The state machine *)

NoCall == [op |-> "none"]

NoRet == [status |-> "none"]

Init ==
  /\ ledger = <<>>
  /\ hasOpex \in BOOLEAN
  /\ call = NoCall
  /\ ret = NoRet

\* The dataset is replaced on disk by one with a further record (the ledger
\* is append-only), while no call is being served.
AppendRow ==
  /\ call = NoCall
  /\ Len(ledger) < MaxRows
  /\ \E r \in Rows(hasOpex) : ledger' = Append(ledger, r)
  /\ UNCHANGED <<hasOpex, call, ret>>

GetData ==
  \E metric \in MetricArgs, customer \in OptionOf(CustomerQueries),
     project \in OptionOf(ProjectQueries) :
    /\ call = NoCall
    /\ call' = [op |-> "get_data", metric |-> metric, customer |-> customer,
                project |-> project]
    /\ ret' = get_data(ledger, hasOpex, metric, customer, project)
    /\ UNCHANGED <<ledger, hasOpex>>

ComparePerformance ==
  \E entity_type \in EntityTypes, metrics \in MetricLists, top_n \in TopNs :
    /\ call = NoCall
    /\ call' = [op |-> "compare_performance", entity_type |-> entity_type,
                metrics |-> metrics, top_n |-> top_n]
    /\ ret' = compare_performance(ledger, hasOpex, entity_type, metrics, top_n)
    /\ UNCHANGED <<ledger, hasOpex>>

ListAllEntities ==
  /\ call = NoCall
  /\ call' = [op |-> "list_all_entities"]
  /\ ret' = list_all_entities(ledger)
  /\ UNCHANGED <<ledger, hasOpex>>

ListCustomerProjects ==
  \E customer_name \in CustomerQueries :
    /\ call = NoCall
    /\ call' = [op |-> "list_customer_projects", name |-> customer_name]
    /\ ret' = list_customer_projects(ledger, customer_name)
    /\ UNCHANGED <<ledger, hasOpex>>

ListProjectCustomers ==
  \E project_name \in ProjectQueries :
    /\ call = NoCall
    /\ call' = [op |-> "list_project_customers", name |-> project_name]
    /\ ret' = list_project_customers(ledger, project_name)
    /\ UNCHANGED <<ledger, hasOpex>>

\* The handler returns: its outcome goes to the caller and its locals are gone.
Return ==
  /\ call # NoCall
  /\ call' = NoCall
  /\ ret' = NoRet
  /\ UNCHANGED <<ledger, hasOpex>>

Next ==
  \/ AppendRow
  \/ Return
  \/ GetData
  \/ ComparePerformance
  \/ ListAllEntities
  \/ ListCustomerProjects
  \/ ListProjectCustomers

Spec == Init /\ [][Next]_vars

-----------------------------------------------------------------------------
(* Vocabulary of the properties: the ledger read independently of the      *)
(* operators above                                                          *)

RowIndex == 1..Len(ledger)

\* the distinct names of a column of the ledger
NamesIn(column) == {ledger[i][column] : i \in RowIndex}

\* the sum of field over the first n rows whose column holds name
RECURSIVE SumWhere(_, _, _, _)
SumWhere(field, column, name, n) ==
  IF n = 0 THEN 0
  ELSE SumWhere(field, column, name, n - 1)
       + (IF ledger[n][column] = name THEN ledger[n][field] ELSE 0)

RevenueOf(column, name) == SumWhere("Revenue", column, name, Len(ledger))

\* the sum of field over the first n rows
RECURSIVE Total(_, _)
Total(field, n) == IF n = 0 THEN 0 ELSE Total(field, n - 1) + ledger[n][field]

ColumnOf(entity_type) ==
  IF Lower(entity_type) = S_customer THEN "CustomerName" ELSE "ProjectName"

ValidNames == {S_revenue, S_gross_margin, S_ebitda}

IsCompare == call.op = "compare_performance"

IsGetData == call.op = "get_data"

ValidCompare ==
  /\ IsCompare
  /\ Lower(call.entity_type) \in {S_customer, S_project}
  /\ \/ call.metrics = None
     \/ \A i \in 1..Len(call.metrics[1]) : Lower(call.metrics[1][i]) \in ValidNames

\* the metrics a compare_performance call asks for
Requested == IF call.metrics = None THEN ValidNames
             ELSE {call.metrics[1][i] : i \in 1..Len(call.metrics[1])}

\* the positions of the entity entries of a compare_performance result
EntityEntries == {i \in 1..Len(ret.results) : ret.results[i].key # S_OVERALL}

-----------------------------------------------------------------------------
(* C1 *)

C1_Case ==
  /\ IsCompare
  /\ call.metrics = None
  /\ Lower(call.entity_type) \in {S_customer, S_project}
  /\ call.top_n # None
  /\ call.top_n[1] > 0

\* C1: for every ledger and positive top_n, compare_performance(entity_type,
\* top_n=top_n) returns the first min(top_n, number of groups) groups of the
\* revenue-descending order plus one additional entry keyed OVERALL, which is
\* computed from the whole ledger and not counted against top_n.
C1_TopNGroupsPlusOverall ==
  C1_Case =>
    LET col == ColumnOf(call.entity_type)
        groups == NamesIn(col)
        n == IF call.top_n[1] < Cardinality(groups) THEN call.top_n[1]
             ELSE Cardinality(groups)
        res == ret.results
    IN  /\ ret.status = "ok"
        /\ Len(res) = n + 1
        /\ res[n + 1].key = S_OVERALL
        /\ \A i \in 1..n : res[i].key \in groups
        /\ \A i, j \in 1..n : res[i].key = res[j].key => i = j
        /\ \A i \in 1..n : \A g \in groups \ {res[j].key : j \in 1..n} :
             RevenueOf(col, g) <= RevenueOf(col, res[i].key)
        /\ \A i \in 1..n : DictGet(res[i].value, S_revenue).value = RevenueOf(col, res[i].key)
        /\ DictGet(res[n + 1].value, S_revenue).value = Total("Revenue", Len(ledger))
        /\ DictGet(res[n + 1].value, S_gross_margin).value
             = Total("Revenue", Len(ledger)) - Total("COGS", Len(ledger))

-----------------------------------------------------------------------------
(* C9 *)

\* C9: a compare_performance call whose entity_type and metrics pass
\* validation returns a mapping whose every entry, OVERALL included, holds
\* exactly the requested metrics; invalid input is rejected with
\* InvalidDimension or UnknownMetric.
C9_ValidCallReturnsRequestedMetrics ==
  IsCompare =>
    IF ValidCompare
      THEN /\ ret.status = "ok"
           /\ \A i \in 1..Len(ret.results) :
                {ret.results[i].value[k].key : k \in 1..Len(ret.results[i].value)}
                  = Requested
      ELSE ret.status \in {"InvalidDimension", "UnknownMetric"}

-----------------------------------------------------------------------------
(* Vocabulary for get_data and the directory lookups *)

\* the rows (by index) whose column holds one of the names
RowsWith(column, names) == {i \in RowIndex : ledger[i][column] \in names}

\* the best score of query over the rows of idx, and the entity a
\* resolution over those rows selects: the name of the first row reaching it
BestScore(query, column, idx) ==
  CHOOSE m \in {ScoreTable[query][ledger[i][column]] : i \in idx} :
    \A i \in idx : ScoreTable[query][ledger[i][column]] <= m

Selected(query, column, idx) ==
  LET first == CHOOSE i \in idx :
                 /\ ScoreTable[query][ledger[i][column]] = BestScore(query, column, idx)
                 /\ \A j \in idx : j < i =>
                      ScoreTable[query][ledger[j][column]] < BestScore(query, column, idx)
  IN  ledger[first][column]

\* the customer stage of a get_data call failed
CustomerFailed ==
  ret.status \in {"NoConfidentMatch", "TypeError"} /\ ret.dim = "customer"

\* the project stage of a get_data call failed
ProjectFailed ==
  ret.status \in {"NoConfidentMatch", "TypeError"} /\ ret.dim = "project"

\* the rows a get_data call resolves its project against: all of them, or
\* those of the customer it resolved
RowsAfterCustomer ==
  IF call.customer = None THEN RowIndex
  ELSE RowsWith("CustomerName", {ret.customer[1]})

KnownMetric == Lower(call.metric) \in ValidNames

-----------------------------------------------------------------------------
(* C2 *)

\* a customer that resolves is supplied together with a project
C2_Case ==
  /\ IsGetData
  /\ call.customer # None
  /\ call.project # None
  /\ ~CustomerFailed

\* C2 (as stated): with a customer that resolves and a project that matches
\* none of that customer's rows, get_data returns an empty result rather
\* than failing.
C2_EmptyResultOnNonMatchingProject ==
  (/\ C2_Case
   /\ KnownMetric
   /\ \A i \in RowsAfterCustomer : ledger[i].ProjectName # call.project[1])
  => /\ ret.status \in {"ok", "KeyError"}
     /\ ret.values = <<>>
     /\ ret.percentages = <<>>

\* C2 (amended): the project is resolved against the project names of the
\* resolved customer's rows only; if none of them scores above 80 the call
\* fails with NoConfidentMatch naming the best of them, and otherwise the
\* rows used are the rows of that customer and the resolved project, so a
\* result is never empty.
C2_ProjectResolvedWithinCustomer ==
  C2_Case =>
    LET idx == RowsAfterCustomer
        q == call.project[1]
    IN  /\ idx # {}
        /\ IF BestScore(q, "ProjectName", idx) > 80
             THEN /\ ~ProjectFailed
                  /\ ret.project = Some(Selected(q, "ProjectName", idx))
                  /\ ret.status = "ok" =>
                       /\ ret.values # <<>>
                       /\ Len(ret.values)
                            = Cardinality(idx \cap RowsWith("ProjectName", {ret.project[1]}))
                       /\ Len(ret.percentages) = Len(ret.values)
             ELSE /\ ret.status = "NoConfidentMatch"
                  /\ ret.dim = "project"
                  /\ ret.hint = Selected(q, "ProjectName", idx)
                  /\ ret.values = <<>>

\* a customer resolves and the project, held by another customer only, is
\* rejected against this customer's projects
C2_Witness ==
  /\ C2_Case
  /\ ret.status = "NoConfidentMatch"
  /\ ret.dim = "project"
  /\ \E i \in RowIndex : ledger[i].ProjectName = call.project[1]
  /\ \A i \in RowsAfterCustomer : ledger[i].ProjectName # call.project[1]

-----------------------------------------------------------------------------
(* C3 *)

\* C3 (as stated): a get_data call whose metric is none of the three names,
\* compared case-insensitively, fails with UnknownMetric whatever customer
\* and project accompany it.
C3_UnknownMetricWhateverFilters ==
  (IsGetData /\ ~KnownMetric /\ ledger # <<>>) => ret.status = "UnknownMetric"

\* the filters of a get_data call both resolve (or are not given)
C3_FiltersResolve ==
  /\ call.customer # None =>
       /\ ledger # <<>>
       /\ BestScore(call.customer[1], "CustomerName", RowIndex) > 80
  /\ call.project # None =>
       /\ RowsAfterCustomer # {}
       /\ BestScore(call.project[1], "ProjectName", RowsAfterCustomer) > 80

\* C3 (amended): such a call always fails; it fails with UnknownMetric when
\* every supplied customer and project resolves, and otherwise with the
\* failure of the resolution (NoConfidentMatch, or TypeError on a ledger
\* without rows), which is raised before the metric is looked at.  No call
\* with a known metric fails with UnknownMetric.
C3_UnknownMetricAfterFilters ==
  IsGetData =>
    /\ ~KnownMetric =>
         IF C3_FiltersResolve THEN ret.status = "UnknownMetric"
         ELSE ret.status \in {"NoConfidentMatch", "TypeError"}
    /\ KnownMetric => ret.status # "UnknownMetric"

\* an unknown metric together with a customer that does not resolve
C3_Witness ==
  /\ IsGetData
  /\ ~KnownMetric
  /\ call.customer # None
  /\ ret.status = "NoConfidentMatch"
  /\ ret.dim = "customer"

-----------------------------------------------------------------------------
(* C4 *)

\* the rows a successful get_data call computes on
RowsUsed ==
  IF call.project = None THEN RowsAfterCustomer
  ELSE RowsAfterCustomer \cap RowsWith("ProjectName", {ret.project[1]})

\* C4: without an OPEX column every operation treats OPEX as zero: ebitda is
\* Revenue - COGS in get_data (both modes) and in every compare_performance
\* entry, and no operation fails because the column is absent.
C4_AbsentOpexIsZero ==
  ~hasOpex =>
    /\ (IsGetData /\ Lower(call.metric) = S_ebitda /\ ~CustomerFailed /\ ~ProjectFailed) =>
         /\ ret.status = "ok"
         /\ IF call.customer = None /\ call.project = None
              THEN ret.values
                     = <<Total("Revenue", Len(ledger)) - Total("COGS", Len(ledger))>>
              ELSE /\ Len(ret.values) = Cardinality(RowsUsed)
                   /\ \A k \in 1..Len(ret.values) :
                        \E i \in RowsUsed : ret.values[k] = ledger[i].Revenue - ledger[i].COGS
    /\ (IsCompare /\ ret.status = "ok" /\ S_ebitda \in Requested) =>
         \A i \in 1..Len(ret.results) :
           DictGet(ret.results[i].value, S_ebitda).value
             = IF ret.results[i].key = S_OVERALL
                 THEN Total("Revenue", Len(ledger)) - Total("COGS", Len(ledger))
                 ELSE RevenueOf(ColumnOf(call.entity_type), ret.results[i].key)
                      - SumWhere("COGS", ColumnOf(call.entity_type),
                                 ret.results[i].key, Len(ledger))

-----------------------------------------------------------------------------
(* C8 *)

\* C8: in the aggregate paths (get_data without customer and project, every
\* compare_performance entry) a summed revenue <= 0 gives gross_margin and
\* ebitda the percentage 0 without the call failing, and the percentage of
\* revenue is 1.0 whatever the summed revenue.
C8_ZeroPercentageNoFailure ==
  /\ (IsGetData /\ call.customer = None /\ call.project = None /\ KnownMetric) =>
       /\ ret.status = "ok"
       /\ Lower(call.metric) = S_revenue => ret.percentages = <<Frac(1, 1)>>
       /\ (Lower(call.metric) # S_revenue /\ Total("Revenue", Len(ledger)) <= 0) =>
            ret.percentages = <<Frac(0, 1)>>
  /\ ValidCompare =>
       /\ ret.status = "ok"
       /\ \A i \in 1..Len(ret.results) : \A k \in 1..Len(ret.results[i].value) :
            LET e == ret.results[i].value[k]
                summed == IF ret.results[i].key = S_OVERALL
                            THEN Total("Revenue", Len(ledger))
                            ELSE RevenueOf(ColumnOf(call.entity_type), ret.results[i].key)
            IN  /\ e.key = S_revenue => e.value.percentage = Frac(1, 1)
                /\ (e.key # S_revenue /\ summed <= 0) => e.value.percentage = Frac(0, 1)

-----------------------------------------------------------------------------
(* C5 *)

IsLookup == call.op \in {"list_customer_projects", "list_project_customers"}

LookupColumn ==
  IF call.op = "list_customer_projects" THEN "CustomerName" ELSE "ProjectName"

LookupOther ==
  IF call.op = "list_customer_projects" THEN "ProjectName" ELSE "CustomerName"

\* the outcome of a get_data filter on dimension dim for query q resolved
\* over the rows idx: accepted iff the best score exceeds 80, the entity
\* taken or named being the first of the best
C5_Stage(dim, column, q, idx, local) ==
  IF BestScore(q, column, idx) > 80
    THEN /\ ~(ret.status \in {"NoConfidentMatch", "TypeError"} /\ ret.dim = dim)
         /\ local = Some(Selected(q, column, idx))
    ELSE /\ ret.status = "NoConfidentMatch"
         /\ ret.dim = dim
         /\ ret.hint = Selected(q, column, idx)
         /\ ret.values = <<>>
         /\ ret.percentages = <<>>

\* the same for a directory lookup
C5_Lookup ==
  IsLookup /\ ledger # <<>> =>
    IF BestScore(call.name, LookupColumn, RowIndex) > 80
      THEN /\ ret.status = "ok"
           /\ {ret.names[k] : k \in 1..Len(ret.names)}
                = {ledger[i][LookupOther] :
                     i \in RowsWith(LookupColumn,
                                    {Selected(call.name, LookupColumn, RowIndex)})}
      ELSE /\ ret.status = "NoConfidentMatch"
           /\ ret.hint = Selected(call.name, LookupColumn, RowIndex)
           /\ ret.names = <<>>

\* C5 (as stated): resolution selects the highest-scoring candidate among
\* the distinct names of the dimension in the ledger, accepts it iff its
\* score is above 80, and otherwise fails with NoConfidentMatch carrying it.
C5_BestOfTheDimension ==
  /\ (IsGetData /\ call.customer # None /\ ledger # <<>>) =>
       C5_Stage("customer", "CustomerName", call.customer[1], RowIndex, ret.customer)
  /\ (IsGetData /\ call.project # None /\ ledger # <<>> /\ ~CustomerFailed) =>
       C5_Stage("project", "ProjectName", call.project[1], RowIndex, ret.project)
  /\ C5_Lookup

\* C5 (amended): the candidates are the distinct names of the dimension in
\* the rows the filter is applied to, which for the project filter of
\* get_data are the rows the customer filter left; with at least one such
\* row the first highest-scoring candidate is accepted iff its score is
\* above 80 and otherwise the call fails with NoConfidentMatch carrying it,
\* returning nothing.  Without any row the call fails with TypeError.
C5_BestOfTheRowsFiltered ==
  /\ (IsGetData /\ call.customer # None /\ ledger # <<>>) =>
       C5_Stage("customer", "CustomerName", call.customer[1], RowIndex, ret.customer)
  /\ (IsGetData /\ call.project # None /\ ledger # <<>> /\ ~CustomerFailed) =>
       /\ RowsAfterCustomer # {}
       /\ C5_Stage("project", "ProjectName", call.project[1], RowsAfterCustomer,
                   ret.project)
  /\ C5_Lookup
  /\ (ledger = <<>> /\ (IsLookup \/ (IsGetData /\ (call.customer # None \/ call.project # None))))
       => ret.status = "TypeError"

\* a query whose best score is exactly 80 is rejected, the candidate named
C5_Witness ==
  /\ IsGetData
  /\ call.customer # None
  /\ ledger # <<>>
  /\ BestScore(call.customer[1], "CustomerName", RowIndex) = 80
  /\ ret.status = "NoConfidentMatch"
  /\ ret.hint \in NamesIn("CustomerName")

-----------------------------------------------------------------------------
(* C6 *)

\* C6: resolving a name that occurs in the column returns that name, so that
\* filtering by an exact canonical name selects exactly that entity's rows.
C6_ExactNameResolvesToItself ==
  /\ (IsGetData /\ call.customer # None /\ call.customer[1] \in NamesIn("CustomerName")) =>
       /\ ~CustomerFailed
       /\ ret.customer = call.customer
  /\ (IsLookup /\ call.name \in NamesIn(LookupColumn)) =>
       /\ ret.status = "ok"
       /\ {ret.names[k] : k \in 1..Len(ret.names)}
            = {ledger[i][LookupOther] : i \in RowsWith(LookupColumn, {call.name})}

-----------------------------------------------------------------------------
(* C7 *)

\* the entity entries of a result, in order
EntityKeys ==
  SelectSeq(DictKeys(ret.results), LAMBDA k : k # S_OVERALL)

\* C7: the entity entries of compare_performance's result are in descending
\* order of the entity's summed revenue, entities of equal summed revenue in
\* group (sorted name) order, and a revenue an entry reports is the sum of
\* Revenue over the entity's rows.
C7_SortedByRevenue ==
  (IsCompare /\ ret.status = "ok") =>
    LET col == ColumnOf(call.entity_type)
    IN  /\ \A i \in 1..(Len(EntityKeys) - 1) :
             \/ RevenueOf(col, EntityKeys[i]) > RevenueOf(col, EntityKeys[i + 1])
             \/ /\ RevenueOf(col, EntityKeys[i]) = RevenueOf(col, EntityKeys[i + 1])
                /\ StrLess(EntityKeys[i], EntityKeys[i + 1])
        /\ \A i \in EntityEntries :
             DictHas(ret.results[i].value, S_revenue) =>
               DictGet(ret.results[i].value, S_revenue).value
                 = RevenueOf(col, ret.results[i].key)

\* two entities come out in the order of their revenue, against their names
C7_Witness ==
  /\ IsCompare
  /\ ret.status = "ok"
  /\ Len(EntityKeys) = 2
  /\ StrLess(EntityKeys[2], EntityKeys[1])
  /\ RevenueOf(ColumnOf(call.entity_type), EntityKeys[1])
       > RevenueOf(ColumnOf(call.entity_type), EntityKeys[2])

-----------------------------------------------------------------------------
(* C10 *)

IsListAll == call.op = "list_all_entities"

SeqSet(seq) == {seq[i] : i \in 1..Len(seq)}

\* C10: in list_all_entities' result, P is listed under C in
\* customer_projects iff C is listed under P in project_customers iff some
\* row has customer C and project P; the keys of the two mappings are the
\* customers and projects lists; no entity maps to an empty list.
C10_CrossReferenceConsistent ==
  IsListAll =>
    LET cp == ret.customer_projects
        pc == ret.project_customers
        Listed(d, k, v) == \E i \in 1..Len(d) : d[i].key = k /\ v \in SeqSet(d[i].value)
    IN  /\ \A c \in CustomerNames \cup SeqSet(DictKeys(cp)) :
             \A p \in ProjectNames \cup SeqSet(DictKeys(pc)) :
               /\ Listed(cp, c, p) <=> Listed(pc, p, c)
               /\ Listed(cp, c, p) <=>
                    \E i \in RowIndex :
                      ledger[i].CustomerName = c /\ ledger[i].ProjectName = p
        /\ DictKeys(cp) = ret.customers
        /\ DictKeys(pc) = ret.projects
        /\ SeqSet(ret.customers) = NamesIn("CustomerName")
        /\ SeqSet(ret.projects) = NamesIn("ProjectName")
        /\ \A i \in 1..Len(cp) : cp[i].value # <<>>
        /\ \A i \in 1..Len(pc) : pc[i].value # <<>>

\* two customers share one project
C10_Witness ==
  /\ IsListAll
  /\ Len(ret.customers) = 2
  /\ Len(ret.projects) = 1
  /\ Len(ret.project_customers[1].value) = 2

====
